---------------------------- MODULE Spec2Model ----------------------------
(***************************************************************************)
(* Model of qtmips_cli/main.cpp: the command-line front end of the QtMips  *)
(* simulator.  main() runs a fixed sequence of configuration steps over    *)
(* the parsed command line; each step either completes or terminates the   *)
(* process.  Text values are sequences of one-character strings, so that   *)
(* the parsers (split, indexOf, toLong, toInt, toULong, stoul) are         *)
(* computed character by character as the libraries compute them.          *)
(***************************************************************************)
EXTENDS Integers, Sequences, FiniteSets, TLC

VARIABLES cmd, pc, li, status, diag, steps, cc, machine, symtab, tr, rep, mem

vars == <<cmd, pc, li, status, diag, steps, cc, machine, symtab, tr, rep, mem>>

(***************************************************************************)
(* Characters and strings                                                  *)
(***************************************************************************)
Digits == <<"0", "1", "2", "3", "4", "5", "6", "7", "8", "9">>

UpperAZ == <<"A", "B", "C", "D", "E", "F", "G", "H", "I", "J", "K", "L", "M",
             "N", "O", "P", "Q", "R", "S", "T", "U", "V", "W", "X", "Y", "Z">>

LowerAZ == <<"a", "b", "c", "d", "e", "f", "g", "h", "i", "j", "k", "l", "m",
             "n", "o", "p", "q", "r", "s", "t", "u", "v", "w", "x", "y", "z">>

\* v shifted right by 16 bits (v >= 0)
Shr16(v) == v \div 65536

\* 0 <= v < 2^64 and 0 <= v < 2^63, 0 <= v < 2^31, computed by shifting so
\* that no power beyond the checker's integers is ever formed
FitsU64(v) == v >= 0 /\ Shr16(Shr16(Shr16(Shr16(v)))) = 0

FitsU63(v) == v >= 0 /\ Shr16(Shr16(Shr16(v))) \div 32768 = 0

FitsU31(v) == v >= 0 /\ Shr16(v) \div 32768 = 0

\* lo <= v <= hi of a two's complement type with the given magnitude test
FitsLong(v) == IF v >= 0 THEN FitsU63(v) ELSE FitsU63(0 - v - 1)

FitsInt(v) == IF v >= 0 THEN FitsU31(v) ELSE FitsU31(0 - v - 1)

\* QChar::isDigit, restricted to ASCII
isDigit(c) == \E i \in 1..10 : Digits[i] = c

\* tolower / QString::toLower on one character
tolowerChar(c) ==
  IF \E i \in 1..26 : UpperAZ[i] = c
  THEN LowerAZ[CHOOSE i \in 1..26 : UpperAZ[i] = c]
  ELSE c

toLower(s) == [i \in 1..Len(s) |-> tolowerChar(s[i])]

\* value of a digit in bases up to 16, or 99 when the character is no digit
DigitValue(c) ==
  IF isDigit(c) THEN (CHOOSE i \in 1..10 : Digits[i] = c) - 1
  ELSE IF \E i \in 1..6 : LowerAZ[i] = tolowerChar(c)
       THEN 9 + (CHOOSE i \in 1..6 : LowerAZ[i] = tolowerChar(c))
       ELSE 99

isDigitOfBase(c, base) == DigitValue(c) < base

\* isspace() of the C locale
isSpace(c) == c \in {" ", "\t", "\n", "\r"}

\* QString::indexOf(ch, from): 0-based position, -1 when absent
indexOf(s, ch, from) ==
  IF \E i \in (from + 1)..Len(s) : s[i] = ch
  THEN (CHOOSE i \in (from + 1)..Len(s) :
          s[i] = ch /\ \A j \in (from + 1)..(i - 1) : s[j] # ch) - 1
  ELSE -1

\* QString::mid(pos, n) and QString::mid(pos)
mid(s, pos, n) == SubSeq(s, pos + 1, pos + n)

midFrom(s, pos) == SubSeq(s, pos + 1, Len(s))

\* QString::split(","): the list of fields, empty fields kept
RECURSIVE split(_)
split(s) ==
  IF indexOf(s, ",", 0) < 0 THEN <<s>>
  ELSE <<mid(s, 0, indexOf(s, ",", 0))>> \o split(midFrom(s, indexOf(s, ",", 0) + 1))

\* number of leading characters of s that are digits of the base
RECURSIVE DigitPrefixLen(_, _)
DigitPrefixLen(s, base) ==
  IF s = <<>> \/ ~isDigitOfBase(s[1], base) THEN 0
  ELSE 1 + DigitPrefixLen(Tail(s), base)

\* value of a string of digits of the base
RECURSIVE DigitsValue(_, _)
DigitsValue(s, base) ==
  IF s = <<>> THEN 0
  ELSE DigitsValue(SubSeq(s, 1, Len(s) - 1), base) * base + DigitValue(s[Len(s)])

\* leading / trailing white space removed (QLocaleData::numberToCLocale)
RECURSIVE trimmed(_)
trimmed(s) ==
  IF s = <<>> THEN s
  ELSE IF isSpace(s[1]) THEN trimmed(Tail(s))
  ELSE IF isSpace(s[Len(s)]) THEN trimmed(SubSeq(s, 1, Len(s) - 1))
  ELSE s

\* strtoul/strtoull on text that starts at the digits (sign already taken)
\* whether the text carries a 0x prefix that the base allows
IsHexPrefixed(s, base) ==
  /\ Len(s) >= 3
  /\ s[1] = "0"
  /\ s[2] \in {"x", "X"}
  /\ isDigitOfBase(s[3], 16)
  /\ base \in {0, 16}

\* the base used when the text carries no 0x prefix
ScanBase(s, base) ==
  IF base # 0 THEN base
  ELSE IF s # <<>> /\ s[1] = "0" THEN 8 ELSE 10

\* n digits of body converted, after skip characters of prefix
ScanResult(n, body, b, skip) ==
  [used |-> IF n = 0 THEN 0 ELSE n + skip,
   val  |-> DigitsValue(SubSeq(body, 1, n), b)]

ScanDigits(body, b, skip) == ScanResult(DigitPrefixLen(body, b), body, b, skip)

\* the number of characters consumed (0: no conversion) and the value
ScanUnsigned(s, base) ==
  IF IsHexPrefixed(s, base)
  THEN ScanDigits(midFrom(s, 2), 16, 2)
  ELSE ScanDigits(s, ScanBase(s, base), 0)

HasSign(t, signs) == t # <<>> /\ t[1] \in signs

Unsigned(t, signs) == IF HasSign(t, signs) THEN Tail(t) ELSE t

\* the ok flag and value of a conversion: everything consumed, in range
Converted(consumed, inrange, v) ==
  IF consumed /\ inrange THEN [ok |-> TRUE, val |-> v] ELSE [ok |-> FALSE, val |-> 0]

AllConsumed(r, body) == r.used > 0 /\ r.used = Len(body)

Negated(neg, v) == IF neg THEN 0 - v ELSE v

SignedConverted(consumed, v) == Converted(consumed, FitsLong(v), v)

SignedScan(neg, body, r) ==
  SignedConverted(AllConsumed(r, body), Negated(neg, r.val))

SignedText(t, base) ==
  SignedScan(HasSign(t, {"-"}), Unsigned(t, {"+", "-"}),
             ScanUnsigned(Unsigned(t, {"+", "-"}), base))

\* QString::toLongLong(&ok, base) in the C locale
toLongLong(s, base) == SignedText(trimmed(s), base)

\* QString::toLong(): base 10, the ok flag dropped, 0 on failure
toLong(s) == toLongLong(s, 10).val

IntConverted(r) == Converted(r.ok, FitsInt(r.val), r.val)

\* QString::toInt(&ok): base 10, fails outside the int range
toInt(s) == IntConverted(toLongLong(s, 10))

UnsignedScan(body, r) == Converted(AllConsumed(r, body), FitsU64(r.val), r.val)

UnsignedText(t, base) ==
  UnsignedScan(Unsigned(t, {"+"}), ScanUnsigned(Unsigned(t, {"+"}), base))

\* QString::toULong(&ok, base): a leading minus is rejected (qstrtoull)
toULong(s, base) == UnsignedText(trimmed(s), base)

\* conversion of an unsigned long to std::uint32_t: v mod 2^32
Uint32(v) == v - Shr16(Shr16(v)) * 65536 * 65536

\* a 32-bit memory word as its two 16-bit halves <<high, low>>; the word of
\* the unsigned long that strtoul returns for magnitude mag, negated
\* (modulo 2^64) when the text carried a minus sign
Word32(neg, mag) ==
  IF ~neg \/ mag = 0
  THEN <<Shr16(mag) % 65536, mag % 65536>>
  ELSE <<65535 - (Shr16(mag - 1) % 65536), 65535 - ((mag - 1) % 65536)>>

RECURSIVE SpacePrefixLen(_)
SpacePrefixLen(s) ==
  IF s = <<>> \/ ~isSpace(s[1]) THEN 0 ELSE 1 + SpacePrefixLen(Tail(s))

\* what std::stoul makes of strtoul's result r on text t after sp blanks
StoulResult(sp, t, r) ==
  IF r.used = 0
  THEN [thrown |-> "invalid_argument", idx |-> 0, neg |-> FALSE, mag |-> 0]
  ELSE IF ~FitsU64(r.val)
  THEN [thrown |-> "out_of_range", idx |-> 0, neg |-> FALSE, mag |-> 0]
  ELSE [thrown |-> "none",
        idx |-> sp + (IF HasSign(t, {"+", "-"}) THEN 1 ELSE 0) + r.used,
        neg |-> HasSign(t, {"-"}), mag |-> r.val]

StoulText(sp, t) == StoulResult(sp, t, ScanUnsigned(Unsigned(t, {"+", "-"}), 0))

StoulAfter(sp, line) == StoulText(sp, midFrom(line, sp))

\* std::stoul(line, &idx, 0): strtoul, throwing when nothing is converted
\* or the value does not fit unsigned long
stoul(line) == StoulAfter(SpacePrefixLen(line), line)

(***************************************************************************)
(* The command line                                                        *)
(*   cmd.flags       the options without value that were given             *)
(*   cmd.positional  the positional arguments                              *)
(*   cmd.values      option name -> the list of values given for it        *)
(*   cmd.files       file name -> the lines of the file                    *)
(*   cmd.elf_symtab  whether the machine has a symbol table once built     *)
(*   cmd.symbols     the symbol table's names and values                   *)
(***************************************************************************)
isSet(name) ==
  IF name \in DOMAIN cmd.values THEN cmd.values[name] # <<>> ELSE name \in cmd.flags

values(name) == cmd.values[name]

\* SymbolTable::name_to_value: ok and the value of a known name
name_to_value(str) ==
  IF \E e \in cmd.symbols : e.name = str
  THEN [ok |-> TRUE, val |-> (CHOOSE e \in cmd.symbols : e.name = str).val]
  ELSE [ok |-> FALSE, val |-> 0]

\* the lines std::getline yields from the file; none when it cannot be opened
FileLines(fname) ==
  IF fname \in DOMAIN cmd.files THEN cmd.files[fname] ELSE <<>>

(***************************************************************************)
(* configure_cache                                                         *)
(***************************************************************************)
CacheParamsDiag == "Parameters for cache incorrect (correct lru,4,2,2,wb)."

CachePolicyDiag == "Policy for cache is incorrect."

CacheZeroDiag == "Parameters for cache cannot have zero component."

CacheWriteDiag == "Write policy for cache is incorrect (correct wb/wt/wtna/wta)."

\* MachineConfigCache as constructed by MachineConfig
DefaultCache ==
  [enabled |-> FALSE, replacement |-> "default", write |-> "default",
   sets |-> 1, blocks |-> 1, associativity |-> 1]

Fatal(d, c) == [fatal |-> TRUE, diag |-> d, conf |-> c]

Done(c) == [fatal |-> FALSE, diag |-> "", conf |-> c]

\* the first occurrence taken instead of the last
FirstOccurrence(cachearg) == cachearg[1]

\* the occurrence of the option that configure_cache reads
SelectedOccurrence(cachearg) == cachearg[Len(cachearg)]

\* lines 99-104: the replacement policy a lower-cased first field names
ReplacementPolicy(w) ==
  IF w = <<"r", "a", "n", "d", "o", "m">> THEN "RP_RAND"
  ELSE IF w = <<"l", "r", "u">> THEN "RP_LRU"
  ELSE IF w = <<"l", "f", "u">> THEN "RP_LFU"
  ELSE "none"

\* lines 123-128: the write policy a lower-cased fourth field names
WritePolicy(w) ==
  IF w = <<"w", "b">> THEN "WP_BACK"
  ELSE IF w = <<"w", "t">> \/ w = <<"w", "t", "n", "a">> THEN "WP_THROUGH_NOALLOC"
  ELSE IF w = <<"w", "t", "a">> THEN "WP_THROUGH_ALLOC"
  ELSE "none"

\* the field read with automatic base detection
GeometryFieldAutoBase(piece) == toLongLong(piece, 0).val

\* lines 115-117: the number a geometry field sets
GeometryField(piece) == toLong(piece)

\* lines 122-133
CacheWrite(c2, wp) ==
  IF wp = "none" THEN Fatal(CacheWriteDiag, c2) ELSE Done([c2 EXCEPT !.write = wp])

\* lines 118-133, once the geometry is set
CacheChecked(c2, pieces) ==
  IF c2.sets = 0 \/ c2.blocks = 0 \/ c2.associativity = 0
  THEN Fatal(CacheZeroDiag, c2)
  ELSE IF Len(pieces) > 3
  THEN CacheWrite(c2, WritePolicy(toLower(pieces[4])))
  ELSE Done(c2)

\* lines 111-133, on the pieces left after the policy field
CacheGeometry(c1, pieces) ==
  IF Len(pieces) < 3 THEN Fatal(CacheParamsDiag, c1)
  ELSE CacheChecked([c1 EXCEPT !.sets = GeometryField(pieces[1]),
                               !.blocks = GeometryField(pieces[2]),
                               !.associativity = GeometryField(pieces[3])],
                    pieces)

\* lines 99-109
CachePolicy(c1, pieces, rp) ==
  IF rp = "none" THEN Fatal(CachePolicyDiag, c1)
  ELSE CacheGeometry([c1 EXCEPT !.replacement = rp], Tail(pieces))

\* lines 90-133
CachePieces(c1, pieces) ==
  IF Len(pieces) < 3 THEN Fatal(CacheParamsDiag, c1)
  ELSE IF Len(pieces[1]) < 1 THEN Fatal(CachePolicyDiag, c1)
  ELSE IF ~isDigit(pieces[1][1])
  THEN CachePolicy(c1, pieces, ReplacementPolicy(toLower(pieces[1])))
  ELSE CacheGeometry(c1, pieces)

configure_cache(cacheconf, cachearg) ==
  IF Len(cachearg) < 1 THEN Done(cacheconf)
  ELSE CachePieces([cacheconf EXCEPT !.enabled = TRUE],
                   split(SelectedOccurrence(cachearg)))

(***************************************************************************)
(* configure_tracer                                                        *)
(***************************************************************************)
TraceGpDiag == "Unknown register number given for trace-gp"

\* line 187: the test a numeric trace-gp token has to pass
RegisterAccepted(res, num) == res /\ num <= 32

\* lines 186-192: a token converted by toInt
TraceNumber(calls, r) ==
  IF RegisterAccepted(r.ok, r.val)
  THEN [fatal |-> FALSE, diag |-> "", gp |-> Append(calls, r.val)]
  ELSE [fatal |-> TRUE, diag |-> TraceGpDiag, gp |-> calls]

\* lines 181-193: the reg_gp calls made for one token
TraceToken(tok, calls) ==
  IF tok = <<"*">>
  THEN [fatal |-> FALSE, diag |-> "", gp |-> calls \o [y \in 1..32 |-> y - 1]]
  ELSE TraceNumber(calls, toInt(tok))

\* lines 180-194: the reg_gp calls made for the tokens, in order
RECURSIVE TraceGp(_, _)
TraceRest(gps, r) == IF r.fatal THEN r ELSE TraceGp(Tail(gps), r.gp)

TraceGp(gps, calls) ==
  IF gps = <<>> THEN [fatal |-> FALSE, diag |-> "", gp |-> calls]
  ELSE TraceRest(gps, TraceToken(Head(gps), calls))

\* lines 163-177, 196-199: the traces switched on by flags
TraceFlags ==
  {f \in {"trace-fetch", "trace-pc", "trace-lo", "trace-hi"} : isSet(f)}
  \cup {f \in {"trace-decode", "trace-execute", "trace-memory", "trace-writeback"} :
          isSet("pipelined") /\ isSet(f)}

(***************************************************************************)
(* configure_reporter                                                      *)
(***************************************************************************)
FailDiag == "Unknown fail condition"

RangeStartDiag == "Range start missing"

RangeLengthDiag == "Range lengt/name missing"

RangeSpecDiag == "Range start/length specification error."

\* lines 216-232: the fail reason of one lower-cased letter
FailReason(c) ==
  IF c = "i" THEN "FR_I"
  ELSE IF c = "a" THEN "FR_A"
  ELSE IF c = "o" THEN "FR_O"
  ELSE IF c = "j" THEN "FR_J"
  ELSE "none"

\* lines 214-234: the letters of one --fail-match value
RECURSIVE FailLetters(_, _)
FailLetter(word, expected, reason) ==
  IF reason = "none" THEN [fatal |-> TRUE, expected |-> expected]
  ELSE FailLetters(Tail(word), expected \cup {reason})

FailLetters(word, expected) ==
  IF word = <<>> THEN [fatal |-> FALSE, expected |-> expected]
  ELSE FailLetter(word, expected, FailReason(tolowerChar(Head(word))))

\* lines 212-235: all --fail-match values
RECURSIVE FailMatch(_, _)
FailRest(fail, r) == IF r.fatal THEN r ELSE FailMatch(Tail(fail), r.expected)

FailMatch(fail, expected) ==
  IF fail = <<>> THEN [fatal |-> FALSE, expected |-> expected]
  ELSE FailRest(fail, FailLetters(Head(fail), expected))

\* line 236: whether --expect-fail alone makes any trap expected
ExpectAny == isSet("expect-fail") /\ ~isSet("fail-match")

\* lines 236-237
ExpectFail(r) ==
  IF ~r.fatal /\ ExpectAny
  THEN [fatal |-> FALSE, expected |-> r.expected \cup {"FailAny"}]
  ELSE r

\* lines 212-237
ReporterTraps == ExpectFail(FailMatch(values("fail-match"), {}))

\* the test for a symbol table left out
UseSymbolUnchecked(str, st) == Len(str) >= 1 /\ ~isDigit(str[1])

\* lines 256, 262, 288: whether the text is looked up as a symbol
UseSymbol(str, st) == Len(str) >= 1 /\ ~isDigit(str[1]) /\ st

\* lines 259, 265, 291: the number read, stored into a std::uint32_t
ResolveNumber(r) == [ok |-> r.ok, val |-> Uint32(r.val)]

\* lines 256-260, 262-266, 288-292: a start or length
Resolve(str, st) ==
  IF UseSymbol(str, st) THEN name_to_value(str) ELSE ResolveNumber(toULong(str, 0))

\* lines 267-271
DumpResolved(range_arg, comma2, r1, r2) ==
  IF ~r1.ok \/ ~r2.ok THEN [fatal |-> TRUE, diag |-> RangeSpecDiag]
  ELSE [fatal |-> FALSE, diag |-> "",
        range |-> [start |-> r1.val, len |-> r2.val,
                   fname |-> midFrom(range_arg, comma2 + 1)]]

\* lines 251-271
DumpSecond(range_arg, st, comma1, comma2) ==
  IF comma2 < 0 THEN [fatal |-> TRUE, diag |-> RangeLengthDiag]
  ELSE DumpResolved(range_arg, comma2,
                    Resolve(mid(range_arg, 0, comma1), st),
                    Resolve(mid(range_arg, comma1 + 1, comma2 - comma1 - 1), st))

\* lines 246-271
DumpFirst(range_arg, st, comma1) ==
  IF comma1 < 0 THEN [fatal |-> TRUE, diag |-> RangeStartDiag]
  ELSE DumpSecond(range_arg, st, comma1, indexOf(range_arg, ",", comma1 + 1))

\* lines 240-271: one --dump-range argument
DumpRange(range_arg, st) == DumpFirst(range_arg, st, indexOf(range_arg, ",", 0))

\* lines 239-272: the add_dump_range calls, in order
RECURSIVE DumpRanges(_, _, _)
DumpRest(args, st, added, r) ==
  IF r.fatal THEN [fatal |-> TRUE, diag |-> r.diag, ranges |-> added]
  ELSE DumpRanges(Tail(args), st, Append(added, r.range))

DumpRanges(args, st, added) ==
  IF args = <<>> THEN [fatal |-> FALSE, diag |-> "", ranges |-> added]
  ELSE DumpRest(args, st, added, DumpRange(Head(args), st))

(***************************************************************************)
(* load_ranges                                                             *)
(***************************************************************************)
LoadDataDiag == "cannot parse load range data."

UncaughtDiag == "terminate called after throwing an instance"

\* characters the loader trims from a line
LoaderBlank(c) == c \in {" ", "\t", "\n"}

\* find_first_not_of / find_last_not_of (" \t\n"): 1-based, 0 for npos
FirstNotBlank(line) ==
  IF \E i \in 1..Len(line) : ~LoaderBlank(line[i])
  THEN CHOOSE i \in 1..Len(line) :
         ~LoaderBlank(line[i]) /\ \A j \in 1..(i - 1) : LoaderBlank(line[j])
  ELSE 0

LastNotBlank(line) ==
  IF \E i \in 1..Len(line) : ~LoaderBlank(line[i])
  THEN CHOOSE i \in 1..Len(line) :
         ~LoaderBlank(line[i]) /\ \A j \in (i + 1)..Len(line) : LoaderBlank(line[j])
  ELSE 0

\* lines 309-310
TrimLine(line) == SubSeq(line, FirstNotBlank(line), LastNotBlank(line))

\* line 299: the address of the first word written for a range starting at start
FirstAddress(start) == start

\* line 301: start & ~3
AlignedStart(start) == start - (start % 4)

\* the check of line 312 left out: the converted prefix is written
LoadParsedUnchecked(text, r) ==
  IF r.thrown # "none" THEN [outcome |-> "abort", diag |-> UncaughtDiag]
  ELSE [outcome |-> "write", diag |-> "", val |-> Word32(r.neg, r.mag)]

\* lines 311-317: what the loop does with a line that stoul converted to r
LoadParsed(text, r) ==
  IF r.thrown # "none" THEN [outcome |-> "abort", diag |-> UncaughtDiag]
  ELSE IF r.idx # Len(text) THEN [outcome |-> "exit1", diag |-> LoadDataDiag]
  ELSE [outcome |-> "write", diag |-> "", val |-> Word32(r.neg, r.mag)]

\* lines 311-317 on one trimmed line
LoadLine(text) == LoadParsed(text, stoul(text))

\* lines 302-318: the loop over the lines of one file
RECURSIVE LoadLines(_, _, _, _)
LoadRest(lines, addr, n, writes, r) ==
  IF r.outcome # "write"
  THEN [outcome |-> r.outcome, diag |-> r.diag, writes |-> writes]
  ELSE LoadLines(Tail(lines), Uint32(addr + 4), n,
                 Append(writes, [req |-> n, addr |-> addr, val |-> r.val]))

LoadLines(lines, addr, n, writes) ==
  IF lines = <<>> THEN [outcome |-> "done", diag |-> "", writes |-> writes]
  ELSE IF LastNotBlank(Head(lines)) = 0
  THEN LoadLines(Tail(lines), addr, n, writes)
  ELSE LoadRest(lines, addr, n, writes, LoadLine(TrimLine(Head(lines))))

\* lines 293-319
LoadResolved(range_arg, comma1, n, r) ==
  IF ~r.ok
  THEN [outcome |-> "exit1", diag |-> RangeSpecDiag, writes |-> <<>>]
  ELSE LoadLines(FileLines(midFrom(range_arg, comma1 + 1)),
                 FirstAddress(r.val), n, <<>>)

\* lines 282-319
LoadFirst(range_arg, st, n, comma1) ==
  IF comma1 < 0
  THEN [outcome |-> "exit1", diag |-> RangeStartDiag, writes |-> <<>>]
  ELSE LoadResolved(range_arg, comma1, n, Resolve(mid(range_arg, 0, comma1), st))

\* lines 279-319: one --load-range argument, the n-th
LoadRange(range_arg, st, n) == LoadFirst(range_arg, st, n, indexOf(range_arg, ",", 0))

(***************************************************************************)
(* main: the steps and their order                                         *)
(***************************************************************************)
PositionalDiag == "Single ELF file has to be specified"

\* the instruction cache configured before the data cache
AfterCachesSwapped(step) ==
  CASE step = "positional" -> "settings"
    [] step = "settings"   -> "icache"
    [] step = "icache"     -> "dcache"
    [] step = "dcache"     -> "machine"
    [] step = "machine"    -> "tracer"
    [] step = "tracer"     -> "traps"
    [] step = "traps"      -> "dump"
    [] step = "dump"       -> IF isSet("asm") THEN "assemble" ELSE "load"
    [] step = "assemble"   -> "load"

\* the machine built before the caches are configured
AfterMachineFirst(step) ==
  CASE step = "positional" -> "settings"
    [] step = "settings"   -> "machine"
    [] step = "machine"    -> "dcache"
    [] step = "dcache"     -> "icache"
    [] step = "icache"     -> "tracer"
    [] step = "tracer"     -> "traps"
    [] step = "traps"      -> "dump"
    [] step = "dump"       -> IF isSet("asm") THEN "assemble" ELSE "load"
    [] step = "assemble"   -> "load"

\* lines 136-160 and 354-372: the step that follows a completed step
After(step) ==
  CASE step = "positional" -> "settings"
    [] step = "settings"   -> "dcache"
    [] step = "dcache"     -> "icache"
    [] step = "icache"     -> "machine"
    [] step = "machine"    -> "tracer"
    [] step = "tracer"     -> "traps"
    [] step = "traps"      -> "dump"
    [] step = "dump"       -> IF isSet("asm") THEN "assemble" ELSE "load"
    [] step = "assemble"   -> "load"

\* exit(1), or std::terminate after an uncaught exception
Terminate(outcome, d) ==
  /\ status' = outcome
  /\ diag' = d
  /\ pc' = pc

Continue ==
  /\ pc' = After(pc)
  /\ UNCHANGED <<status, diag>>

Finish(fatal, d) == IF fatal THEN Terminate("exit1", d) ELSE Continue

Running(step) ==
  /\ status = "running"
  /\ pc = step
  /\ steps' = Append(steps, step)

\* lines 137-143
CheckPositional ==
  /\ Running("positional")
  /\ IF Len(cmd.positional) # 1
     THEN Terminate("exit1", PositionalDiag) /\ UNCHANGED cc
     ELSE Continue /\ cc' = [cc EXCEPT !.elf = cmd.positional[1]]
  /\ UNCHANGED <<cmd, li, machine, symtab, tr, rep, mem>>

\* lines 148-156: the last value of a timing option, when one was given
LastTime(name, old) ==
  IF Len(values(name)) >= 1 THEN toLong(values(name)[Len(values(name))]) ELSE old

\* lines 145-156
ApplySettings ==
  /\ Running("settings")
  /\ Continue
  /\ cc' = [cc EXCEPT !.delay_slot = ~isSet("no-delay-slot"),
                      !.pipelined = isSet("pipelined"),
                      !.read = LastTime("read-time", cc.read),
                      !.write = LastTime("write-time", cc.write),
                      !.burst = LastTime("burst-time", cc.burst)]
  /\ UNCHANGED <<cmd, li, machine, symtab, tr, rep, mem>>

\* the configuration and the process after a configure_cache call
CacheConfigured(which, r) ==
  /\ cc' = [cc EXCEPT ![which] = r.conf]
  /\ Finish(r.fatal, r.diag)

\* line 158
ConfigureDCache ==
  /\ Running("dcache")
  /\ CacheConfigured("dcache", configure_cache(cc.dcache, values("d-cache")))
  /\ UNCHANGED <<cmd, li, machine, symtab, tr, rep, mem>>

\* line 159
ConfigureICache ==
  /\ Running("icache")
  /\ CacheConfigured("icache", configure_cache(cc.icache, values("i-cache")))
  /\ UNCHANGED <<cmd, li, machine, symtab, tr, rep, mem>>

\* line 356: the machine is built; it holds a symbol table only when it
\* loaded an executable that carries one
ConstructMachine ==
  /\ Running("machine")
  /\ Continue
  /\ machine' = TRUE
  /\ symtab' = (~isSet("asm") /\ cmd.elf_symtab)
  /\ UNCHANGED <<cmd, li, cc, tr, rep, mem>>

\* the tracer and the process after the trace-gp loop
TracerConfigured(r) ==
  /\ tr' = [flags |-> IF r.fatal
                      THEN TraceFlags \ {"trace-lo", "trace-hi"}
                      ELSE TraceFlags,
            gp |-> r.gp]
  /\ Finish(r.fatal, r.diag)

\* lines 358-359
ConfigureTracer ==
  /\ Running("tracer")
  /\ TracerConfigured(TraceGp(values("trace-gp"), <<>>))
  /\ UNCHANGED <<cmd, li, cc, machine, symtab, rep, mem>>

\* lines 205-210: the reports switched on by flags
ReportFlags ==
  {f \in {"dump-registers", "dump-cache-stats", "dump-cycles"} : isSet(f)}

TrapsConfigured(r) ==
  /\ rep' = [rep EXCEPT !.flags = ReportFlags, !.expected = r.expected]
  /\ Finish(r.fatal, FailDiag)

\* lines 361-362, 205-237
ConfigureReporterTraps ==
  /\ Running("traps")
  /\ TrapsConfigured(ReporterTraps)
  /\ UNCHANGED <<cmd, li, cc, machine, symtab, tr, mem>>

DumpConfigured(r) ==
  /\ rep' = [rep EXCEPT !.ranges = r.ranges]
  /\ Finish(r.fatal, r.diag)

\* lines 239-272
ConfigureReporterDump ==
  /\ Running("dump")
  /\ DumpConfigured(DumpRanges(values("dump-range"), symtab, <<>>))
  /\ UNCHANGED <<cmd, li, cc, machine, symtab, tr, mem>>

\* lines 364-368, 323-341: the assembler creates the symbol table; whether
\* it accepts the source is its own business
Assemble ==
  /\ Running("assemble")
  /\ symtab' = TRUE
  /\ \E ok \in BOOLEAN :
       IF ok THEN Continue ELSE Terminate("exit1", "")
  /\ UNCHANGED <<cmd, li, cc, machine, tr, rep, mem>>

Loaded(r) ==
  /\ mem' = mem \o r.writes
  /\ IF r.outcome = "done"
     THEN UNCHANGED <<pc, status, diag>>
     ELSE Terminate(r.outcome, r.diag)

\* lines 278-320: the next --load-range argument
LoadNext ==
  /\ Running("load")
  /\ li < Len(values("load-range"))
  /\ li' = li + 1
  /\ Loaded(LoadRange(values("load-range")[li + 1], symtab, li + 1))
  /\ UNCHANGED <<cmd, cc, machine, symtab, tr, rep>>

\* lines 372-373
Play ==
  /\ status = "running"
  /\ pc = "load"
  /\ steps' = Append(steps, "play")
  /\ li = Len(values("load-range"))
  /\ pc' = "play"
  /\ status' = "playing"
  /\ UNCHANGED <<cmd, li, diag, cc, machine, symtab, tr, rep, mem>>

Next ==
  \/ CheckPositional
  \/ ApplySettings
  \/ ConfigureDCache
  \/ ConfigureICache
  \/ ConstructMachine
  \/ ConfigureTracer
  \/ ConfigureReporterTraps
  \/ ConfigureReporterDump
  \/ Assemble
  \/ LoadNext
  \/ Play

(***************************************************************************)
(* Command lines                                                           *)
(***************************************************************************)
MaxTokLen == 3

MaxOcc == 2

MaxLines == 3

\* all texts of at most n characters of the alphabet
StrUpTo(alphabet, n) == UNION {[1..k -> alphabet] : k \in 0..n}

\* lists of at most MaxOcc occurrences: the last one from last, the ones
\* before it from earlier
Occurrences(earlier, last) ==
  {<<>>} \cup UNION {{e \o <<l>> : e \in [1..k -> earlier], l \in last} :
                       k \in 0..(MaxOcc - 1)}

RECURSIVE JoinComma(_)
JoinComma(fields) ==
  IF Len(fields) = 1 THEN fields[1]
  ELSE fields[1] \o <<",">> \o JoinComma(Tail(fields))

ValueOptions ==
  {"trace-gp", "dump-range", "load-range", "fail-match", "d-cache", "i-cache",
   "read-time", "write-time", "burst-time"}

\* a valid command line that reaches every step but the assembler
PlainCmd ==
  [flags      |-> {},
   positional |-> << <<"p">> >>,
   values     |-> [o \in ValueOptions |->
                     IF o = "load-range" THEN << <<"4", ",", "a">> >> ELSE <<>>],
   files      |-> [f \in {<<"a">>} |-> << <<"7">> >>],
   elf_symtab |-> FALSE,
   symbols    |-> {[name |-> <<"m">>, val |-> 66]}]

WithFlags(c, fl) == [c EXCEPT !.flags = fl]

WithValues(c, o, v) == [c EXCEPT !.values[o] = v]

InitRun ==
  /\ pc = "positional"
  /\ li = 0
  /\ status = "running"
  /\ diag = ""
  /\ steps = <<>>
  /\ cc = [elf |-> <<>>, delay_slot |-> TRUE, pipelined |-> FALSE,
           read |-> 10, write |-> 10, burst |-> 0,
           dcache |-> DefaultCache, icache |-> DefaultCache]
  /\ machine = FALSE
  /\ symtab = FALSE
  /\ tr = [flags |-> {}, gp |-> <<>>]
  /\ rep = [flags |-> {}, expected |-> {}, ranges |-> <<>>]
  /\ mem = <<>>

\* ---- whole runs: a few values of every option, all combined
GoodCache == <<"l", "r", "u", ",", "4", ",", "2", ",", "2", ",", "w", "b">>

BadCache == <<"4", ",", "0", ",", "2">>

RunCaches == {<<>>, <<GoodCache>>, <<BadCache>>}

RunGps == {<<>>, << <<"*">>, <<"3">> >>, << <<"3">>, <<"3", "3">> >>}

RunFails == {<<>>, << <<"i">> >>, << <<"i", "z">> >>}

RunDumps ==
  {<<>>, << <<"8", ",", "4", ",", "d">> >>, << <<"8", ",", "4", ",", "d">>, <<"m", ",", "4", ",", "d">> >>}

RunLoads ==
  {<<>>, << <<"4", ",", "a">>, <<"8", ",", "b">> >>,
   << <<"4", ",", "b">>, <<"8", ",", "a">> >>, << <<"4", "a">> >>}

RunFiles ==
  {[f \in {<<"a">>, <<"b">>} |-> IF f = <<"a">> THEN << <<"7">>, <<"9">> >> ELSE lb] :
     lb \in {<< <<"1">> >>, << <<"1">>, <<"1", "z">>, <<"2">> >>}}

RunFlags ==
  {{}, {"asm"}, {"asm", "pipelined", "trace-decode", "trace-lo", "expect-fail"},
   {"no-delay-slot", "trace-fetch", "trace-decode", "dump-cycles", "expect-fail"}}

\* the command line with the given values of the options that take one
CmdOf(fl, pa, gp, du, lo, fa, dc, ic, fi, st) ==
  [flags      |-> fl,
   positional |-> pa,
   values     |-> [o \in ValueOptions |->
                     CASE o = "trace-gp"   -> gp
                       [] o = "dump-range" -> du
                       [] o = "load-range" -> lo
                       [] o = "fail-match" -> fa
                       [] o = "d-cache"    -> dc
                       [] o = "i-cache"    -> ic
                       [] o = "read-time"  -> << <<"5">>, <<"2", "0">> >>
                       [] OTHER            -> <<>>],
   files      |-> fi,
   elf_symtab |-> st,
   symbols    |-> PlainCmd.symbols]

Init ==
  /\ \E fl \in RunFlags, pa \in {<<>>, << <<"p">> >>, << <<"p">>, <<"q">> >>},
        gp \in RunGps, du \in RunDumps, lo \in RunLoads, fa \in RunFails,
        dc \in RunCaches, ic \in RunCaches, fi \in RunFiles, st \in BOOLEAN :
       cmd = CmdOf(fl, pa, gp, du, lo, fa, dc, ic, fi, st)
  /\ InitRun

Spec == Init /\ [][Next]_vars

\* ---- cache options: one field of the last occurrence takes every text
GeoAlphabet == {"0", "1", "x", "-", "+", " "}

CacheSpecOf(policy, f1, f2, f3, wp) ==
  JoinComma(policy \o <<f1, f2, f3>> \o wp)

RichCaches ==
  {CacheSpecOf(<< <<"l", "r", "u">> >>, f, <<"2">>, <<"2">>, <<>>) :
     f \in StrUpTo(GeoAlphabet, MaxTokLen)}
  \cup {CacheSpecOf(<<>>, <<"4">>, f, <<"2">>, << <<"w", "b">> >>) :
     f \in StrUpTo(GeoAlphabet, MaxTokLen)}
  \cup {CacheSpecOf(<< <<"L", "F", "U">> >>, <<"4">>, <<"2">>, f, <<>>) :
     f \in StrUpTo(GeoAlphabet, MaxTokLen)}

SampleCaches ==
  {CacheSpecOf(po, f1, <<"2">>, f3, wp) :
     po \in {<<>>, << <<"l", "r", "u">> >>, << <<"R", "a", "n", "d", "o", "m">> >>,
             << <<"l", "r", "x">> >>, << <<>> >>},
     f1 \in {<<"4">>, <<"0", "x", "4">>},
     f3 \in {<<"2">>, <<"0">>},
     wp \in {<<>>, << <<"w", "b">> >>, << <<"W", "T", "A">> >>, << <<"w", "t">>, <<"z">> >>,
             << <<"w">> >>}}
  \cup {<<"4", ",", "2">>, <<"l", "r", "u", ",", "4", ",", "2">>}

EarlierCaches == {GoodCache, BadCache}

InitCache ==
  /\ \E fl \in {{}, {"asm"}}, o \in {"d-cache", "i-cache"},
        l \in Occurrences(EarlierCaches, RichCaches \cup SampleCaches) :
       cmd = WithValues(WithFlags(PlainCmd, fl), o, l)
  /\ InitRun

SpecCache == InitCache /\ [][Next]_vars

\* ---- trace-gp tokens
GpAlphabet == {"*", "-", "2", "3", "a"}

EarlierGps == {<<"*">>, <<"3">>, <<"a">>}

InitTracer ==
  /\ \E fl \in {{}, {"asm"}, {"pipelined", "trace-fetch", "trace-memory", "trace-hi"}},
        l \in Occurrences(EarlierGps, StrUpTo(GpAlphabet, MaxTokLen)) :
       cmd = WithValues(WithFlags(PlainCmd, fl), "trace-gp", l)
  /\ InitRun

SpecTracer == InitTracer /\ [][Next]_vars

\* ---- fail-match values and expect-fail
FailAlphabet == {"i", "A", "O", "j", "z"}

EarlierFails == {<<>>, <<"a">>}

InitTraps ==
  /\ \E fl \in {{}, {"asm"}, {"expect-fail"}, {"asm", "expect-fail", "dump-registers"}},
        l \in Occurrences(EarlierFails, StrUpTo(FailAlphabet, MaxTokLen)) :
       cmd = WithValues(WithFlags(PlainCmd, fl), "fail-match", l)
  /\ InitRun

SpecTraps == InitTraps /\ [][Next]_vars

\* ---- START and LENGTH of the range options
RangeAlphabet == {"0", "1", "x", "m", "+", "-", " "}

RangeArgs ==
  {[opt |-> "dump-range", arg |-> JoinComma(<<t, <<"4">>, <<"d">> >>)] :
     t \in StrUpTo(RangeAlphabet, MaxTokLen)}
  \cup {[opt |-> "dump-range", arg |-> JoinComma(<< <<"8">>, t, <<"d", ",", "e">> >>)] :
     t \in StrUpTo(RangeAlphabet, MaxTokLen)}
  \cup {[opt |-> "load-range", arg |-> JoinComma(<<t, <<"a">> >>)] :
     t \in StrUpTo(RangeAlphabet, MaxTokLen)}
  \cup {[opt |-> "dump-range", arg |-> <<"8">>],
        [opt |-> "dump-range", arg |-> <<"8", ",", "4">>],
        [opt |-> "load-range", arg |-> <<"8">>]}

InitRange ==
  /\ \E fl \in {{}, {"asm"}}, st \in BOOLEAN, r \in RangeArgs,
        e \in {<<>>, << <<"4", ",", "8", ",", "d">> >>} :
       cmd = WithValues([WithFlags(PlainCmd, fl) EXCEPT !.elf_symtab = st],
                        r.opt,
                        IF r.opt = "dump-range" THEN e \o <<r.arg>>
                        ELSE <<r.arg>> \o PlainCmd.values["load-range"])
  /\ InitRun

SpecRange == InitRange /\ [][Next]_vars

\* ---- the lines of a loaded file
LineSamples ==
  {<<"1">>, <<"0", "x", "1", "f">>, <<" ">>, <<" ", "7", "\t">>, <<"z">>,
   <<"1", "z">>, <<"-", "1">>}

LoadStarts == {<<"4">>, <<"6">>, <<"m">>}

InitLoad ==
  /\ \E fl \in {{}, {"asm"}}, s1 \in LoadStarts,
        la \in UNION {[1..k -> LineSamples] : k \in 0..MaxLines},
        more \in {<<>>, << <<"9", ",", "b">> >>} :
       cmd = [WithValues(WithFlags(PlainCmd, fl), "load-range",
                         <<JoinComma(<<s1, <<"a">> >>)>> \o more)
                EXCEPT !.elf_symtab = TRUE,
                       !.files = [f \in {<<"a">>, <<"b">>} |->
                                    IF f = <<"a">> THEN la ELSE << <<"2">> >>]]
  /\ InitRun

SpecLoad == InitLoad /\ [][Next]_vars

(***************************************************************************)
(* Properties                                                              *)
(***************************************************************************)
Failed == status \in {"exit1", "abort"}

FailedAt(step) == Failed /\ pc = step

StepDone(step) == \E i \in 1..Len(steps) : steps[i] = step

LastStep == IF steps = <<>> THEN "none" ELSE steps[Len(steps)]

\* ---- load_ranges: what a request asks for
LoadArg(n) == values("load-range")[n]

LoadComma(n) == indexOf(LoadArg(n), ",", 0)

LoadStartText(n) == mid(LoadArg(n), 0, LoadComma(n))

LoadFile(n) == FileLines(midFrom(LoadArg(n), LoadComma(n) + 1))

\* the request is read from its file: it has a comma and its start resolves
LoadReads(n) ==
  /\ n \in 1..Len(values("load-range"))
  /\ LoadComma(n) >= 0
  /\ Resolve(LoadStartText(n), symtab).ok

IsBlankLine(line) == \A i \in 1..Len(line) : line[i] \in {" ", "\t", "\n"}

NonBlankLines(n) == SelectSeq(LoadFile(n), LAMBDA l : ~IsBlankLine(l))

\* the trimmed line is not wholly an unsigned number with automatic base
MalformedLine(line) ==
  LET t == TrimLine(line)
      r == stoul(t)
  IN r.thrown # "none" \/ r.idx # Len(t)

WordOfLine(line) ==
  LET r == stoul(TrimLine(line)) IN Word32(r.neg, r.mag)

HasMalformed(n) == \E k \in 1..Len(NonBlankLines(n)) : MalformedLine(NonBlankLines(n)[k])

\* the number of well-formed non-blank lines before the first malformed one
FirstMalformed(n) ==
  (CHOOSE k \in 1..Len(NonBlankLines(n)) :
     /\ MalformedLine(NonBlankLines(n)[k])
     /\ \A j \in 1..(k - 1) : ~MalformedLine(NonBlankLines(n)[j])) - 1

WritesOf(n) == SelectSeq(mem, LAMBDA e : e.req = n)

\* the number of words written before the i-th for the same request
RankOf(i) == Cardinality({j \in 1..(i - 1) : mem[j].req = mem[i].req})

\* C1: the k-th non-blank line of a load-range file is written at
\* (S & ~3) + 4*k, S the resolved start of the request, so every word
\* lands on a multiple of 4
C1_AlignedPlacement ==
  \A i \in 1..Len(mem) :
    /\ mem[i].addr =
         Uint32(AlignedStart(Resolve(LoadStartText(mem[i].req), symtab).val)
                + 4 * RankOf(i))
    /\ mem[i].addr % 4 = 0

\* C4: a malformed non-blank line of a load-range file always ends the
\* process with "cannot parse load range data" and exit status 1
C4_UniformFailure ==
  (LastStep = "load" /\ LoadReads(li) /\ HasMalformed(li))
    => (status = "exit1" /\ diag = LoadDataDiag)

\* C9: when the first malformed line of a load-range file is its j-th
\* non-blank line, the process has terminated with exactly the j lines
\* before it written, in file order, and nothing written for a later request
C9_FailurePosition ==
  (LastStep = "load" /\ LoadReads(li) /\ HasMalformed(li))
    => /\ Failed
       /\ Len(WritesOf(li)) = FirstMalformed(li)
       /\ \A k \in 1..Len(WritesOf(li)) :
            WritesOf(li)[k].val = WordOfLine(NonBlankLines(li)[k])
       /\ \A i \in 1..Len(mem) : mem[i].req <= li
       /\ \A i \in 1..Len(mem) : \A j \in 1..i : mem[j].req <= mem[i].req

C9_Witness ==
  /\ status = "exit1"
  /\ diag = LoadDataDiag
  /\ li = 1
  /\ Len(LoadFile(1)) = 3
  /\ IsBlankLine(LoadFile(1)[2])
  /\ Len(WritesOf(1)) = 1
  /\ Len(values("load-range")) = 2

\* ---- the order of the steps
\* the steps of a run that meets no fatal error
Canonical ==
  <<"positional", "settings", "dcache", "icache", "machine", "tracer", "traps", "dump">>
  \o (IF isSet("asm") THEN <<"assemble">> ELSE <<>>)
  \o [i \in 1..Len(values("load-range")) |-> "load"]
  \o <<"play">>

IsPrefix(p, q) == Len(p) <= Len(q) /\ SubSeq(q, 1, Len(p)) = p

\* whether the input of a step before assembly is invalid; the symbol table
\* the reporter sees is the one the machine was built with
InvalidInput(step) ==
  CASE step = "positional" -> Len(cmd.positional) # 1
    [] step = "dcache"     -> configure_cache(DefaultCache, values("d-cache")).fatal
    [] step = "icache"     -> configure_cache(DefaultCache, values("i-cache")).fatal
    [] step = "tracer"     -> TraceGp(values("trace-gp"), <<>>).fatal
    [] step = "traps"      -> FailMatch(values("fail-match"), {}).fatal
    [] step = "dump"       -> DumpRanges(values("dump-range"),
                                         ~isSet("asm") /\ cmd.elf_symtab, <<>>).fatal
    [] OTHER               -> FALSE

StepsBefore(step) ==
  {Canonical[i] : i \in {j \in 1..Len(Canonical) :
                           \A k \in 1..j : Canonical[k] # step}}

\* C2 as claimed: no fatal error occurs once the Machine, the Tracer, the
\* Reporter or a memory write exists
C2_FailFast ==
  Failed => (~machine /\ mem = <<>> /\ ~StepDone("tracer") /\ ~StepDone("traps"))

\* C2 amended: the positional count and the cache specifications are the
\* only inputs validated before the Machine is built; every fatal error of
\* the trace-gp, fail-match, dump-range and load-range inputs (and of the
\* assembler) occurs with the Machine built, and nothing is written to
\* memory or configured in the tracer before the Machine exists
C2_ValidatedBeforeMachine ==
  /\ Failed => (~machine <=> pc \in {"positional", "dcache", "icache"})
  /\ ~machine => (mem = <<>> /\ tr.gp = <<>> /\ rep.expected = {} /\ rep.ranges = <<>>)
  /\ (Failed /\ pc \in {"tracer", "traps", "dump", "assemble", "load"}) => machine

C2_Witness ==
  /\ status = "exit1"
  /\ pc = "icache"
  /\ ~machine
  /\ InvalidInput("tracer")
  /\ cc.dcache.enabled

\* C10: the steps run at most once each and in the fixed order, a step runs
\* only when every earlier one completed, play is reached exactly when no
\* step failed, and the error reported is that of the earliest invalid input
C10_LinearOrder ==
  /\ IsPrefix(steps, Canonical)
  /\ (status = "playing") <=> (steps = Canonical)
  /\ Failed => (pc = LastStep /\ pc # "play")
  /\ status = "running" => (steps = <<>> \/ pc # LastStep \/ pc = "load")
  /\ Failed => \A e \in StepsBefore(pc) : ~InvalidInput(e)
  /\ (Failed /\ pc \notin {"assemble", "load"}) => InvalidInput(pc)
  /\ \A s \in {"positional", "dcache", "icache", "tracer", "traps", "dump"} :
       (StepDone(s) /\ InvalidInput(s)) => FailedAt(s)
  /\ Len(rep.ranges) <= Len(values("dump-range"))
  /\ \A k \in 1..Len(rep.ranges) :
       DumpRange(values("dump-range")[k], ~isSet("asm") /\ cmd.elf_symtab).range
            = rep.ranges[k]
  /\ \A i \in 1..Len(mem) : \A j \in 1..i : mem[j].req <= mem[i].req
  /\ \A i \in 1..Len(mem) : mem[i].req <= li

C10_Witness ==
  /\ status = "exit1"
  /\ pc = "dcache"
  /\ InvalidInput("icache")
  /\ InvalidInput("tracer")
  /\ InvalidInput("traps")
  /\ values("load-range") # <<>>

\* ---- configure_tracer
AllDigits(t) == t # <<>> /\ \A i \in 1..Len(t) : isDigit(t[i])

\* a token the register list accepts: "*" or an integer 0..32
ClaimedToken(t) == t = <<"*">> \/ (AllDigits(t) /\ DigitsValue(t, 10) <= 32)

ClaimedRegisters(t) ==
  IF t = <<"*">> THEN 0..31 ELSE {DigitsValue(t, 10)}

\* C3: the trace-gp tokens are accepted exactly when each is "*" or an
\* integer 0..32; the tracer is given exactly the registers they name, and
\* never an index outside 0..32
C3_Acceptance ==
  StepDone("tracer") =>
    /\ FailedAt("tracer") <=>
         (\E i \in 1..Len(values("trace-gp")) : ~ClaimedToken(values("trace-gp")[i]))
    /\ \A k \in 1..Len(tr.gp) : tr.gp[k] \in 0..32
    /\ ~FailedAt("tracer") =>
         {tr.gp[k] : k \in 1..Len(tr.gp)}
           = UNION {ClaimedRegisters(values("trace-gp")[i]) :
                      i \in 1..Len(values("trace-gp"))}

\* ---- configure_reporter: the expected traps
\* C5: once the reporter is configured, --fail-match given (with any values)
\* means a trap is expected, and no trap is expected only when neither
\* --expect-fail nor --fail-match was given
C5_FailMatchImpliesExpectFail ==
  (StepDone("traps") /\ ~FailedAt("traps")) =>
    /\ isSet("fail-match") => rep.expected # {}
    /\ (rep.expected = {}) <=> (~isSet("expect-fail") /\ ~isSet("fail-match"))

\* ---- configure_cache
CacheOption(which) == IF which = "dcache" THEN "d-cache" ELSE "i-cache"

LastOccurrence(which) ==
  values(CacheOption(which))[Len(values(CacheOption(which)))]

\* the geometry fields of a cache specification: those after the policy
GeometryOf(arg) ==
  LET p == split(arg) IN
  IF p[1] # <<>> /\ ~isDigit(p[1][1]) THEN Tail(p) ELSE p

\* the step got as far as reading the geometry of the last occurrence
GeometryParsed(which) ==
  /\ StepDone(which)
  /\ values(CacheOption(which)) # <<>>
  /\ FailedAt(which) => diag \in {CacheZeroDiag, CacheWriteDiag}

GeometryAccepted(which) == ~(FailedAt(which) /\ diag = CacheZeroDiag)

\* the number a field denotes with 0x / leading 0 detection; 0 when none
AutoBaseNumber(f) == toULong(f, 0).val

\* the field without the blanks around it
Stripped(f) ==
  IF \E i \in 1..Len(f) : f[i] # " "
  THEN SubSeq(f, CHOOSE i \in 1..Len(f) : f[i] # " " /\ \A j \in 1..(i - 1) : f[j] = " ",
              CHOOSE i \in 1..Len(f) : f[i] # " " /\ \A j \in (i + 1)..Len(f) : f[j] = " ")
  ELSE <<>>

\* the number a signed field of decimal digits denotes; 0 when it is not one
SignedDecimal(t) ==
  IF AllDigits(t) THEN DigitsValue(t, 10)
  ELSE IF t # <<>> /\ t[1] = "+" /\ AllDigits(Tail(t)) THEN DigitsValue(Tail(t), 10)
  ELSE IF t # <<>> /\ t[1] = "-" /\ AllDigits(Tail(t)) THEN 0 - DigitsValue(Tail(t), 10)
  ELSE 0

\* the decimal number a field denotes, blanks around it ignored
DecimalNumber(f) == SignedDecimal(Stripped(f))

FieldNumber(f, auto) == IF auto THEN AutoBaseNumber(f) ELSE DecimalNumber(f)

\* the geometry is accepted exactly when the three fields read non-zero
\* (with automatic base detection, or as decimal numbers), and then holds
\* what they read
GeometryReadBy(auto) ==
  \A w \in {"dcache", "icache"} :
    GeometryParsed(w) =>
      LET g == GeometryOf(LastOccurrence(w)) IN
      /\ GeometryAccepted(w) <=> (\A i \in 1..3 : FieldNumber(g[i], auto) # 0)
      /\ GeometryAccepted(w) =>
           /\ cc[w].sets = FieldNumber(g[1], auto)
           /\ cc[w].blocks = FieldNumber(g[2], auto)
           /\ cc[w].associativity = FieldNumber(g[3], auto)

\* C6 as claimed: the geometry fields are read with automatic base detection
C6_AutoBase == GeometryReadBy(TRUE)

\* C6 amended: the geometry fields are read in base 10 only, as optionally
\* signed numbers with the blanks around them ignored; a field that is not
\* such a number (0x10) reads as 0 and is fatal, and a leading 0 does not
\* make a field octal
C6_Decimal == GeometryReadBy(FALSE)

C6_Witness ==
  /\ StepDone("dcache")
  /\ ~Failed
  /\ values("d-cache") # <<>>
  /\ GeometryOf(LastOccurrence("dcache"))[1] = <<"0", "1", "0">>
  /\ cc.dcache.sets = 10

\* C7: the outcome of configure_cache is that of its last occurrence alone;
\* without occurrences the cache keeps its disabled default; a successful
\* return with occurrences leaves the cache enabled with non-zero geometry
C7_LastWins ==
  \A w \in {"dcache", "icache"} :
    StepDone(w) =>
      IF values(CacheOption(w)) = <<>>
      THEN cc[w] = DefaultCache /\ ~cc[w].enabled /\ ~FailedAt(w)
      ELSE LET one == configure_cache(DefaultCache, <<LastOccurrence(w)>>) IN
           /\ cc[w] = one.conf
           /\ FailedAt(w) <=> one.fatal
           /\ FailedAt(w) => diag = one.diag
           /\ ~FailedAt(w) =>
                /\ cc[w].enabled
                /\ cc[w].sets # 0
                /\ cc[w].blocks # 0
                /\ cc[w].associativity # 0

C7_Witness ==
  /\ StepDone("icache")
  /\ ~Failed
  /\ Len(values("i-cache")) = 2
  /\ values("i-cache")[1] = BadCache
  /\ cc.icache.enabled
  /\ cc.icache.replacement = "RP_LFU"

\* ---- the start and length of a range
NumericResolve(tok) == ResolveNumber(toULong(tok, 0))

Unresolved == [ok |-> FALSE, val |-> 0]

\* the resolution C8 claims: a token that is empty or starts with a digit is
\* a number; any other token is a symbol, and fails without a symbol table
ClaimedResolve(tok, st) ==
  IF tok = <<>> \/ isDigit(tok[1]) THEN NumericResolve(tok)
  ELSE IF st THEN name_to_value(tok) ELSE Unresolved

\* the same, except that without a symbol table every token is a number
AmendedResolve(tok, st) ==
  IF tok = <<>> \/ isDigit(tok[1]) THEN NumericResolve(tok)
  ELSE IF st THEN name_to_value(tok) ELSE NumericResolve(tok)

DumpStartText(arg) == mid(arg, 0, indexOf(arg, ",", 0))

DumpLengthText(arg) ==
  mid(arg, indexOf(arg, ",", 0) + 1,
      indexOf(arg, ",", indexOf(arg, ",", 0) + 1) - indexOf(arg, ",", 0) - 1)

\* the field as the claim resolves it: as claimed, or as amended
R(tok, st, claimed) ==
  IF claimed THEN ClaimedResolve(tok, st) ELSE AmendedResolve(tok, st)

DumpResolves(arg, claimed) ==
  /\ indexOf(arg, ",", 0) >= 0
  /\ indexOf(arg, ",", indexOf(arg, ",", 0) + 1) >= 0
  /\ R(DumpStartText(arg), symtab, claimed).ok
  /\ R(DumpLengthText(arg), symtab, claimed).ok

\* the dump-range and load-range fields are resolved as R resolves them, and
\* no field R fails on reaches add_dump_range or a memory write
RangesResolvedBy(claimed) ==
  /\ LastStep = "dump" =>
       /\ FailedAt("dump") <=>
            (\E i \in 1..Len(values("dump-range")) :
               ~DumpResolves(values("dump-range")[i], claimed))
       /\ ~FailedAt("dump") => Len(rep.ranges) = Len(values("dump-range"))
       /\ \A k \in 1..Len(rep.ranges) :
            /\ DumpResolves(values("dump-range")[k], claimed)
            /\ rep.ranges[k].start = R(DumpStartText(values("dump-range")[k]), symtab, claimed).val
            /\ rep.ranges[k].len = R(DumpLengthText(values("dump-range")[k]), symtab, claimed).val
  /\ (LastStep = "load" /\ li >= 1 /\ LoadComma(li) >= 0) =>
       /\ (FailedAt("load") /\ diag = RangeSpecDiag)
            <=> ~R(LoadStartText(li), symtab, claimed).ok
       /\ ~R(LoadStartText(li), symtab, claimed).ok => WritesOf(li) = <<>>
       /\ WritesOf(li) # <<>> =>
            WritesOf(li)[1].addr = R(LoadStartText(li), symtab, claimed).val

\* C8 as claimed: a range field that is empty or starts with a digit is
\* resolved as a number only; any other field through the symbol table, and
\* it is always fatal when there is no symbol table
C8_SymbolOrFatal == RangesResolvedBy(TRUE)

\* C8 amended: as claimed, except that without a symbol table a field that
\* does not start with a digit is read as a number too, which is fatal for
\* every name but accepts a signed number such as +1
C8_NumericWithoutTable == RangesResolvedBy(FALSE)

C8_Witness ==
  /\ LastStep = "dump"
  /\ ~symtab
  /\ ~Failed
  /\ Len(rep.ranges) = 2
  /\ DumpStartText(values("dump-range")[2]) = <<"+", "1">>
  /\ rep.ranges[2].start = 1

=============================================================================
